---------------------------- MODULE Spec2Model ----------------------------
(***************************************************************************)
(* Command-mode protocol engine of the HC-12 driver (src/src/hc_12.rs).    *)
(*                                                                         *)
(* Text is a sequence of one-character strings.  Time is counted in        *)
(* sub-millisecond units (SubMs units per millisecond) so that the         *)
(* truncation of Duration::as_millis is visible.                           *)
(***************************************************************************)
EXTENDS Integers, Sequences, FiniteSets, TLC

(***************************************************************************)
(* Bounds of the model.                                                    *)
(***************************************************************************)
\* transport faults injected in the adapter calls of one operation
MaxFaults == 1

(***************************************************************************)
(* Program constants.                                                      *)
(***************************************************************************)
\* Duration::from_millis(201) in Command::new
QuietWindowMs == 201
\* FreeRtos::delay_ms(200) after set_low in Command::new
EnterSettleMs == 200
\* FreeRtos::delay_ms(200) after the write in send_command
CommandSettleMs == 200
\* faulty variant: a response buffer two bytes shorter
BufferLenShort == 14 - 2

\* let mut buffer = [0u8; 14]
BufferLen == 14
\* time units per millisecond (Instant has sub-millisecond resolution)
SubMs == 2

Min(a, b) == IF a < b THEN a ELSE b

(***************************************************************************)
(* BaudRate and TransmissionMode.                                          *)
(***************************************************************************)
BaudRate ==
    {"Baud1200", "Baud2400", "Baud4800", "Baud9600",
     "Baud19200", "Baud38400", "Baud57600", "Baud115200"}

\* impl From<BaudRate> for u32
BaudToU32(b) ==
    CASE b = "Baud1200" -> 1200
      [] b = "Baud2400" -> 2400
      [] b = "Baud4800" -> 4800
      [] b = "Baud9600" -> 9600
      [] b = "Baud19200" -> 19200
      [] b = "Baud38400" -> 38400
      [] b = "Baud57600" -> 57600
      [] b = "Baud115200" -> 115200

\* #[default] Baud9600
DefaultBaud == "Baud9600"

TransmissionMode == {"Fu1", "Fu2", "Fu3", "Fu4"}

\* impl From<&TransmissionMode> for u32
ModeToU32(m) ==
    CASE m = "Fu1" -> 1
      [] m = "Fu2" -> 2
      [] m = "Fu3" -> 3
      [] m = "Fu4" -> 4

\* faulty variant: the candidates are tried from the highest rate down
CandidatesDescending ==
    <<"Baud115200", "Baud57600", "Baud38400", "Baud19200",
      "Baud9600", "Baud4800", "Baud2400", "Baud1200">>

\* faulty variant: the last candidate is missing
CandidatesWithoutLast ==
    <<"Baud1200", "Baud2400", "Baud4800", "Baud9600",
      "Baud19200", "Baud38400", "Baud57600">>

\* the candidate array of auto_baud, in its order
Candidates ==
    <<"Baud1200", "Baud2400", "Baud4800", "Baud9600",
      "Baud19200", "Baud38400", "Baud57600", "Baud115200">>

BaudValues == {BaudToU32(b) : b \in BaudRate}

(***************************************************************************)
(* Text: formatting, decoding, searching, splitting, trimming, parsing.    *)
(***************************************************************************)
DigitChars == <<"0", "1", "2", "3", "4", "5", "6", "7", "8", "9">>

\* a byte that is not valid UTF-8, and the character from_utf8_lossy puts for it
BadByte == "0xFF"
Repl == "U+FFFD"

\* format!("{}", n) for an unsigned n
RECURSIVE FormatU32(_)
FormatU32(n) ==
    IF n < 10 THEN <<DigitChars[n + 1]>>
    ELSE FormatU32(n \div 10) \o <<DigitChars[(n % 10) + 1]>>

\* the length of a character in bytes of UTF-8
ByteLen(c) == IF c = Repl THEN 3 ELSE 1

\* String::from_utf8_lossy(&buffer[..bytes_read])
FromUtf8Lossy(bytes) ==
    [i \in 1..Len(bytes) |-> IF bytes[i] = BadByte THEN Repl ELSE bytes[i]]

\* str::contains
Contains(hay, needle) ==
    \E i \in 0..(Len(hay) - Len(needle)) :
        SubSeq(hay, i + 1, i + Len(needle)) = needle

\* the positions of the commas of a text
CommaAt(s) == {i \in 1..Len(s) : s[i] = ","}

\* result.split(",").nth(1): <<>> wrapped in a record, found = FALSE for None
SplitNth1(s) ==
    IF CommaAt(s) = {} THEN [found |-> FALSE, field |-> <<>>]
    ELSE LET first == CHOOSE i \in CommaAt(s) : \A j \in CommaAt(s) : i <= j
             later == {j \in CommaAt(s) : j > first}
             stop  == IF later = {} THEN Len(s) + 1
                      ELSE CHOOSE j \in later : \A k \in later : j <= k
         IN  [found |-> TRUE, field |-> SubSeq(s, first + 1, stop - 1)]

\* whether field[1..] panics: byte index 1 is past the end or inside a character
SliceFrom1Panics(field) ==
    \/ Len(field) = 0
    \/ ByteLen(field[1]) > 1

\* field[1..] when it does not panic
SliceFrom1(field) == SubSeq(field, 2, Len(field))

IsWhite(c) == c \in {" ", "\t", "\r", "\n"}

\* str::trim
RECURSIVE TrimStart(_)
TrimStart(s) ==
    IF s # <<>> /\ IsWhite(s[1]) THEN TrimStart(Tail(s)) ELSE s

RECURSIVE TrimEnd(_)
TrimEnd(s) ==
    IF s # <<>> /\ IsWhite(s[Len(s)]) THEN TrimEnd(SubSeq(s, 1, Len(s) - 1)) ELSE s

Trim(s) == TrimEnd(TrimStart(s))

DigitValue(c) == CHOOSE d \in 0..9 : DigitChars[d + 1] = c

IsDigit(c) == \E d \in 0..9 : DigitChars[d + 1] = c

RECURSIVE DigitsValue(_)
DigitsValue(s) ==
    IF s = <<>> THEN 0
    ELSE 10 * DigitsValue(SubSeq(s, 1, Len(s) - 1)) + DigitValue(s[Len(s)])

\* str::parse::<u32>: the value, or -1 for a ParseIntError.  A numeral of at
\* most nine digits is below u32::MAX; a longer one does not fit the text a
\* 14-byte buffer leaves after "OK+FU<d>," and is not given a value here.
ParseU32(s) ==
    LET body == IF s # <<>> /\ s[1] = "+" THEN Tail(s) ELSE s
    IN  IF body = <<>> THEN -1
        ELSE IF \E i \in 1..Len(body) : ~IsDigit(body[i]) THEN -1
        ELSE IF Len(body) > 9 THEN -1
        ELSE DigitsValue(body)

(***************************************************************************)
(* The wire protocol: what the driver writes and what it expects.          *)
(***************************************************************************)
CRLF == <<"\r", "\n">>

\* "AT"
CmdTest == <<"A", "T">>
\* "OK\r\n"
ExpTest == <<"O", "K">> \o CRLF

\* format!("AT+B{}", u32::from(baud_rate))
CmdBaud(b) == <<"A", "T", "+", "B">> \o FormatU32(BaudToU32(b))
\* format!("OK+B{}\r\n", u32::from(baud_rate))
ExpBaud(b) == <<"O", "K", "+", "B">> \o FormatU32(BaudToU32(b)) \o CRLF

\* format!("AT+FU{}", u32::from(transmission_mode))
CmdMode(m) == <<"A", "T", "+", "F", "U">> \o FormatU32(ModeToU32(m))
\* format!("OK+FU{}", u32::from(transmission_mode))
MarkerMode(m) == <<"O", "K", "+", "F", "U">> \o FormatU32(ModeToU32(m))

\* "AT+DEFAULT"
CmdDefault == <<"A", "T", "+", "D", "E", "F", "A", "U", "L", "T">>
\* "OK+DEFAULT\r\n"
ExpDefault == <<"O", "K", "+", "D", "E", "F", "A", "U", "L", "T">> \o CRLF

(***************************************************************************)
(* The HC-12 module, the other end of the wire.  It understands a command  *)
(* only when the local UART speaks at the module's rate.  A reply is a     *)
(* sequence of bytes; HonestReplies are the replies of the wire protocol,  *)
(* the others are what a faulty or absent module may send.                 *)
(***************************************************************************)
\* some other rate than b
OtherBaud(b) == IF b = "Baud115200" THEN "Baud1200" ELSE "Baud115200"

OtherMode(m) == IF m = "Fu1" THEN "Fu2" ELSE "Fu1"

\* the reply to AT+FU<d> that announces the rate the module has moved to
ModeReplyWithBaud(m, b) ==
    MarkerMode(m) \o <<",", "B">> \o FormatU32(BaudToU32(b)) \o CRLF

\* what an absent module, or one listening at another rate, sends
NoiseReplies == {<<>>, <<BadByte>>}

\* the replies of the wire protocol to a command the module understood
HonestReplies(cmd) ==
    IF cmd = CmdTest THEN {ExpTest}
    ELSE IF cmd = CmdDefault THEN {ExpDefault}
    ELSE IF \E b \in BaudRate : cmd = CmdBaud(b)
         THEN {ExpBaud(b) : b \in {x \in BaudRate : cmd = CmdBaud(x)}}
    ELSE IF \E m \in TransmissionMode : cmd = CmdMode(m)
         THEN LET m == CHOOSE x \in TransmissionMode : cmd = CmdMode(x)
              IN  {MarkerMode(m) \o CRLF}
                    \cup {ModeReplyWithBaud(m, b) : b \in BaudRate}
    ELSE NoiseReplies

\* replies that are not those of the wire protocol
DeviantReplies(cmd) ==
    IF cmd = CmdTest
    THEN {<<"O", "K">>, <<"A">> \o ExpTest, ExpTest \o <<"O">>}
    ELSE IF cmd = CmdDefault
    THEN {<<"O", "K", "+", "D", "E", "F", "A", "U", "L", "T">>, ExpTest}
    ELSE IF \E b \in BaudRate : cmd = CmdBaud(b)
    THEN LET b == CHOOSE x \in BaudRate : cmd = CmdBaud(x)
         IN  {ExpBaud(OtherBaud(b)),
              <<"O", "K", "+", "B">> \o FormatU32(BaudToU32(b)),
              ExpTest}
    ELSE IF \E m \in TransmissionMode : cmd = CmdMode(m)
    THEN LET m == CHOOSE x \in TransmissionMode : cmd = CmdMode(x)
         IN  {MarkerMode(OtherMode(m)) \o CRLF,
              MarkerMode(m) \o <<",">>,
              MarkerMode(m) \o <<",", "B", "x", "x">> \o CRLF,
              MarkerMode(m) \o <<",", "B", "1", "4", "4", "0", "0">> \o CRLF,
              MarkerMode(m) \o <<",", BadByte, "9", "6", "0", "0">>,
              MarkerMode(m) \o <<",", "B", "4", "8", "0", "0", ",", "P", "8">>,
              <<"A">> \o MarkerMode(m) \o CRLF}
    ELSE {}

\* every reply the module may send to a command
Replies(cmd) == HonestReplies(cmd) \cup DeviantReplies(cmd) \cup NoiseReplies

\* whether a reply is one of a module that answers a command only when it
\* is spoken to at its own rate
IsHonest(cmd, reply, local, remote) ==
    IF local = remote THEN reply \in HonestReplies(cmd)
    ELSE reply \notin HonestReplies(cmd)

\* the module's rate after it has sent an honest reply to a command
ModuleBaudAfter(cmd, reply, remote) ==
    IF \E b \in BaudRate : cmd = CmdBaud(b) /\ reply = ExpBaud(b)
    THEN BaudToU32(CHOOSE b \in BaudRate : cmd = CmdBaud(b))
    ELSE IF cmd = CmdDefault /\ reply = ExpDefault
    THEN BaudToU32(DefaultBaud)
    ELSE IF \E m \in TransmissionMode, b \in BaudRate :
              cmd = CmdMode(m) /\ reply = ModeReplyWithBaud(m, b)
    THEN BaudToU32(CHOOSE b \in BaudRate : \E m \in TransmissionMode :
              cmd = CmdMode(m) /\ reply = ModeReplyWithBaud(m, b))
    ELSE remote

(***************************************************************************)
(* State.                                                                  *)
(***************************************************************************)
VARIABLES
    pc,          \* where the program is
    inCtor,      \* the running session is the one Hc12::new opened
    ctor,        \* what Hc12::new was given and did, until the device is used
    op,          \* the protocol operation in progress or last returned
    idx,         \* auto_baud: the index of the candidate being probed
    pending,     \* the argument of the next change_baudrate call
    mode,        \* the level of the mode line (the set pin)
    uartBaud,    \* the rate of the local UART (hc_12.driver)
    moduleBaud,  \* the rate the module listens and answers at
    rx,          \* the bytes in the UART's receive buffer; outside command
                 \* mode the module relays radio payload into it
    wire,        \* the bytes the module sent in reply to the last write
    resp,        \* send_command's decoded text, while the operation that
                 \* called it examines it and after that operation returned
    result,      \* how the last operation ended
    ret,         \* the BaudRate auto_baud returned
    elapsed,     \* hc_12.last_command_exit.elapsed(), saturated at Cap
    since,       \* time since set_low and since the operation's last write
    entry,       \* what Command::new observed and did, kept until the
                 \* session's first operation is called
    log,         \* the adapter calls of the operation, in order
    faults,      \* transport faults injected in this operation so far
    synced,      \* the local rate was the module's when the operation was called
    opHonest,    \* the module has followed it during this operation
    preBaud      \* the local rate when the operation was called (0 for
                 \* auto_baud, which sets the rate before every probe)

vars ==
    <<pc, inCtor, ctor, op, idx, pending, mode, uartBaud, moduleBaud, rx, wire, resp, result,
      ret, elapsed, since, entry, log, faults, synced, opHonest, preBaud>>

\* time saturates here: past the quiet window nothing depends on it
Cap == (QuietWindowMs + 2) * SubMs

Advance(e, units) == Min(e + units, Cap)

NoOp == [name |-> "none", arg |-> "none"]
NoCtor == [arg |-> "none", sessions |-> 0, ran |-> "none", state |-> "none"]
NoSince == [low |-> 0, write |-> 0]
NoEntry == [atCall |-> 0, blocked |-> 0, lowAt |-> 0]

\* a session exists: a Command value is alive
Live == pc \in {"active", "clear_rx", "write", "read", "change_baudrate", "drop"}

\* an operation is between its call and its return
InOperation == pc \in {"clear_rx", "write", "read", "change_baudrate"}

\* set_baud and set_transmission_mode take self by value
Consuming(o) == o.name \in {"set_baud", "set_transmission_mode"}

ProtocolErrors == {"Test", "BaudRate", "AutoBaudRate", "TransmissionMode", "Default"}

\* the command an operation writes
CommandText(o) ==
    CASE o.name \in {"test", "auto_baud"} -> CmdTest
      [] o.name = "set_baud" -> CmdBaud(o.arg)
      [] o.name = "set_transmission_mode" -> CmdMode(o.arg)
      [] o.name = "set_default" -> CmdDefault

\* an entry of the log: the call, whether it returned Ok, the local rate the
\* bytes of the call travel at (for change_baudrate the rate asked for), what
\* was passed (the command written, the rate asked for), and for a write
\* whether the module answered it with exactly OK\r\n
Call(name, ok, data, okReply) ==
    [call |-> name, ok |-> ok,
     baud |-> IF name = "change_baudrate" THEN data ELSE uartBaud,
     data |-> data,
     okReply |-> okReply, since |-> since]

Init ==
    /\ pc = "start"
    /\ inCtor = FALSE
    /\ ctor = NoCtor
    /\ op = NoOp
    /\ idx = 0
    /\ pending = 0
    /\ mode = "unset"
    /\ uartBaud = 0
    /\ moduleBaud \in BaudValues
    /\ rx = <<>>
    /\ wire = <<>>
    /\ resp = <<>>
    /\ result = "none"
    /\ ret = "none"
    /\ elapsed = 0
    /\ since = NoSince
    /\ entry = NoEntry
    /\ log = <<>>
    /\ faults = 0
    /\ synced = FALSE
    /\ opHonest = TRUE
    /\ preBaud = 0

(***************************************************************************)
(* Continuations: where control goes when a step of an operation is over.  *)
(***************************************************************************)
\* the operation returns res (and rv, for auto_baud); a session taken by
\* value, or the constructor's temporary, is dropped next
Return(res, rv) ==
    /\ pc' = IF Consuming(op) \/ inCtor THEN "drop" ELSE "active"
    /\ result' = res
    /\ ret' = rv
    /\ idx' = 0
    /\ pending' = 0

\* a panic: the stack unwinds through Drop, or the build aborts
Panic ==
    /\ pc' \in {"drop", "panicked"}
    /\ result' = "panic"
    /\ ret' = "none"
    /\ idx' = 0
    /\ pending' = 0

\* auto_baud: test() was not Ok, go to the next candidate or give up
NextProbe ==
    IF idx < Len(Candidates)
    THEN /\ pc' = "change_baudrate"
         /\ idx' = idx + 1
         /\ pending' = BaudToU32(Candidates[idx + 1])
         /\ UNCHANGED <<result, ret>>
    ELSE Return("AutoBaudRate", "none")

\* faulty variant: a failed send_command is started again
SendRetried ==
    /\ pc' = "clear_rx"
    /\ UNCHANGED <<result, ret, idx, pending>>

\* send_command failed with a transport error: auto_baud sees test().is_ok()
\* false, every other operation returns the error
SendFailed ==
    IF op.name = "auto_baud" THEN NextProbe ELSE Return("Transport", "none")

Goto(p) ==
    /\ pc' = p
    /\ UNCHANGED <<result, ret, idx, pending>>

(***************************************************************************)
(* Faults: any adapter call may fail with a transport error.  Inside an    *)
(* operation at most MaxFaults calls fail.                                 *)
(***************************************************************************)
MayFail == faults < MaxFaults

Failed(name, data) ==
    /\ MayFail
    /\ faults' = faults + 1
    /\ log' = Append(log, Call(name, FALSE, data, FALSE))

Succeeded(name, data, okReply) ==
    /\ faults' = faults
    /\ log' = Append(log, Call(name, TRUE, data, okReply))

\* what the receive buffer may hold when command mode is entered: nothing,
\* or relayed bytes, here bytes that read like a reply
StaleChoices == {<<>>, ExpTest}

(***************************************************************************)
(* Hc12::new                                                               *)
(***************************************************************************)
\* the calls of the constructor that may fail before the device exists
CtorCalls(choice) ==
    {"uart_new", "pin_output", "set_high"}
        \cup (IF choice = "None" THEN {} ELSE {"change_baudrate"})

\* faulty variant: the rate the caller asked for is not applied
CtorBaudIgnored(choice) == BaudToU32(DefaultBaud)

\* hc_12.driver.change_baudrate(baud_rate) with the caller's rate
CtorBaud(choice) == BaudToU32(choice)

HcNew ==
    /\ pc = "start"
    /\ \E choice \in BaudRate \cup {"None"} :
       \E f \in {"none"} \cup CtorCalls(choice) :
          /\ uartBaud' =
                IF f = "uart_new" THEN uartBaud
                ELSE IF choice = "None" \/ f # "none" THEN BaudToU32("Baud9600")
                ELSE CtorBaud(choice)
          /\ mode' = IF f \in {"none", "change_baudrate"} THEN "high" ELSE mode
          /\ elapsed' = 0
          /\ pc' = IF f # "none" THEN "failed"
                   ELSE IF choice = "None" THEN "open" ELSE "idle"
          /\ inCtor' = (f = "none" /\ choice = "None")
          /\ ctor' = [arg |-> choice, sessions |-> 0, ran |-> "none",
                      state |-> IF f # "none" THEN "Err"
                                ELSE IF choice = "None" THEN "running"
                                ELSE "Ok"]
    /\ rx' \in StaleChoices
    /\ UNCHANGED <<op, idx, pending, moduleBaud, wire, resp, result, ret,
                   since, entry, log, faults, synced, opHonest, preBaud>>

(***************************************************************************)
(* The time the caller lets pass between the end of a session (or the      *)
(* construction) and its next call of Hc12::command.                       *)
(***************************************************************************)
GapChoices ==
    {0, 1, SubMs}
        \cup {(QuietWindowMs - 1) * SubMs + d : d \in {-1, 0}}
        \cup {QuietWindowMs * SubMs + d : d \in {-1, 0, 1}}

(***************************************************************************)
(* Command::new, reached through Hc12::command                             *)
(***************************************************************************)
\* faulty variant: a window of 200 ms, without the millisecond that covers the
\* truncation of as_millis
TimeToWaitNoMargin(e) ==
    IF e <= (QuietWindowMs - 1) * SubMs
    THEN ((QuietWindowMs - 1) * SubMs - e) \div SubMs
    ELSE 0

\* Duration::from_millis(201).checked_sub(elapsed), then as_millis() as u32:
\* the milliseconds to delay, 0 when checked_sub gives None
TimeToWait(e) ==
    IF e <= QuietWindowMs * SubMs
    THEN (QuietWindowMs * SubMs - e) \div SubMs
    ELSE 0

\* FreeRtos::delay_ms(200) after set_low, in time units
SettleAfterLow == EnterSettleMs * SubMs

CommandNew ==
    /\ pc \in {"idle", "open"}
    /\ \E gap \in GapChoices :
       LET atCall == Advance(elapsed, gap)
           wait == TimeToWait(atCall) * SubMs
           atLow == Advance(atCall, wait)
       IN  \/ /\ mode' = "low"
              /\ entry' = [atCall |-> atCall, blocked |-> wait, lowAt |-> atLow]
              /\ elapsed' = Advance(atLow, SettleAfterLow)
              /\ since' = [low |-> SettleAfterLow, write |-> 0]
              /\ pc' = "active"
              /\ result' = "none"
              /\ ctor' = IF inCtor THEN [ctor EXCEPT !.sessions = @ + 1]
                          ELSE NoCtor
              /\ UNCHANGED inCtor
           \/ /\ elapsed' = atLow
              /\ since' = NoSince
              /\ pc' = IF inCtor THEN "failed" ELSE "idle"
              /\ result' = "OpenFailed"
              /\ inCtor' = FALSE
              /\ ctor' = IF inCtor THEN [ctor EXCEPT !.state = "Err"]
                          ELSE NoCtor
              /\ UNCHANGED <<mode, entry>>
    /\ ret' = "none"
    /\ op' = NoOp
    /\ UNCHANGED <<idx, pending, uartBaud, moduleBaud, rx, wire, resp, log,
                   faults, synced, opHonest, preBaud>>

(***************************************************************************)
(* The protocol operations: the call.                                      *)
(***************************************************************************)
Begin(o, first) ==
    /\ pc = "active"
    /\ op' = o
    /\ pc' = first
    /\ log' = <<>>
    /\ result' = "none"
    /\ ret' = "none"
    /\ opHonest' = TRUE
    /\ preBaud' = IF o.name = "auto_baud" THEN 0 ELSE uartBaud
    /\ synced' = (uartBaud = moduleBaud)
    /\ entry' = NoEntry
    /\ wire' = <<>>
    /\ resp' = <<>>
    /\ faults' = 0
    /\ since' = [since EXCEPT !.write = 0]
    /\ UNCHANGED <<inCtor, ctor, mode, uartBaud, moduleBaud, rx, elapsed>>

CallTest ==
    /\ ~inCtor
    /\ Begin([name |-> "test", arg |-> "none"], "clear_rx")
    /\ UNCHANGED <<idx, pending>>

CallSetDefault ==
    /\ ~inCtor
    /\ Begin([name |-> "set_default", arg |-> "none"], "clear_rx")
    /\ UNCHANGED <<idx, pending>>

CallSetBaud ==
    /\ ~inCtor
    /\ \E b \in BaudRate : Begin([name |-> "set_baud", arg |-> b], "clear_rx")
    /\ UNCHANGED <<idx, pending>>

CallSetTransmissionMode ==
    /\ ~inCtor
    /\ \E m \in TransmissionMode :
          Begin([name |-> "set_transmission_mode", arg |-> m], "clear_rx")
    /\ UNCHANGED <<idx, pending>>

CallAutoBaud ==
    /\ Begin([name |-> "auto_baud", arg |-> "none"], "change_baudrate")
    /\ idx' = 1
    /\ pending' = BaudToU32(Candidates[1])

(***************************************************************************)
(* send_command: clear_rx, write, delay, read, decode.                     *)
(***************************************************************************)
\* faulty variant: the receive buffer is left as it is
RxAfterClearKept(buf) == buf

\* the receive buffer after self.hc_12.driver.clear_rx() returned Ok
RxAfterClear(buf) == <<>>

ClearRx ==
    /\ pc = "clear_rx"
    /\ \/ /\ Succeeded("clear_rx", <<>>, FALSE)
          /\ rx' = RxAfterClear(rx)
          /\ Goto("write")
       \/ /\ Failed("clear_rx", <<>>)
          /\ rx' = rx
          /\ SendFailed
    /\ wire' = <<>>
    /\ resp' = <<>>
    /\ UNCHANGED <<inCtor, ctor, op, mode, uartBaud, moduleBaud, elapsed, since, entry,
                   synced, opHonest, preBaud>>

\* FreeRtos::delay_ms(200) after the write, in time units
SettleAfterWrite == CommandSettleMs * SubMs

\* the write, the module's reply arriving, and the delay that follows
Write ==
    /\ pc = "write"
    /\ \/ /\ \E reply \in Replies(CommandText(op)) :
                LET honest == IsHonest(CommandText(op), reply, uartBaud, moduleBaud)
                IN  /\ Succeeded("write", CommandText(op), reply = ExpTest)
                    /\ rx' = rx \o reply
                    /\ wire' = reply
                    /\ opHonest' = (opHonest /\ honest)
                    /\ moduleBaud' =
                          IF honest
                          THEN ModuleBaudAfter(CommandText(op), reply, moduleBaud)
                          ELSE moduleBaud
          /\ elapsed' = Advance(elapsed, SettleAfterWrite)
          /\ since' = [since EXCEPT !.write = SettleAfterWrite]
          /\ Goto("read")
       \/ /\ Failed("write", CommandText(op))
          /\ UNCHANGED <<rx, wire, opHonest, moduleBaud, elapsed, since>>
          /\ SendFailed
    /\ UNCHANGED <<inCtor, ctor, op, mode, uartBaud, resp, entry, synced, preBaud>>

(***************************************************************************)
(* What each operation accepts as its reply.                               *)
(***************************************************************************)
\* faulty variant: a reply that holds OK\r\n somewhere is accepted
TestAcceptsContains(text) == Contains(text, ExpTest)

\* faulty variant: a reply that only starts with OK is accepted
TestAcceptsPrefix(text) ==
    Len(text) >= 2 /\ SubSeq(text, 1, 2) = <<"O", "K">>

\* test: result != "OK\r\n" is the failure
TestAccepts(text) == text = ExpTest

\* faulty variant: any OK+B reply is accepted, whatever its numeral
BaudAcceptsAnyRate(text, b) ==
    Len(text) >= 4 /\ SubSeq(text, 1, 4) = <<"O", "K", "+", "B">>

\* set_baud: result != format!("OK+B{}\r\n", ..) is the failure
BaudAccepts(text, b) == text = ExpBaud(b)

\* set_transmission_mode: !result.contains(&format!("OK+FU{}", ..)) is the failure
ModeAccepts(text, m) == Contains(text, MarkerMode(m))

\* faulty variant: OK+DEFAULT without the line end is accepted
DefaultAcceptsNoLineEnd(text) ==
    Contains(text, <<"O", "K", "+", "D", "E", "F", "A", "U", "L", "T">>)

\* set_default: result != "OK+DEFAULT\r\n" is the failure
DefaultAccepts(text) == text = ExpDefault

\* self.hc_12.read(&mut buffer, 200): the bytes that fit the buffer
ReadBytes(buf) == SubSeq(buf, 1, Min(Len(buf), BufferLen))

\* set_transmission_mode after the marker was found: the second field
ModeAfterMarker(text) ==
    LET second == SplitNth1(text)
    IN  IF ~second.found THEN Return("Ok", "none")
        ELSE IF SliceFrom1Panics(second.field) THEN Panic
        ELSE LET n == ParseU32(Trim(SliceFrom1(second.field)))
             IN  IF n = -1 THEN Return("ParseInt", "none")
                 ELSE /\ pc' = "change_baudrate"
                      /\ pending' = n
                      /\ UNCHANGED <<result, ret, idx>>

\* what the operation does with the decoded text
Decide(text) ==
    CASE op.name = "test" ->
            IF TestAccepts(text) THEN Return("Ok", "none")
            ELSE Return("Test", "none")
      [] op.name = "auto_baud" ->
            IF TestAccepts(text) THEN Return("Ok", Candidates[idx])
            ELSE NextProbe
      [] op.name = "set_default" ->
            IF DefaultAccepts(text) THEN Return("Ok", "none")
            ELSE Return("Default", "none")
      [] op.name = "set_baud" ->
            IF BaudAccepts(text, op.arg)
            THEN /\ pc' = "change_baudrate"
                 /\ pending' = BaudToU32(op.arg)
                 /\ UNCHANGED <<result, ret, idx>>
            ELSE Return("BaudRate", "none")
      [] op.name = "set_transmission_mode" ->
            IF ModeAccepts(text, op.arg) THEN ModeAfterMarker(text)
            ELSE Return("TransmissionMode", "none")

Read ==
    /\ pc = "read"
    /\ \/ /\ Succeeded("read", <<>>, FALSE)
          /\ rx' = SubSeq(rx, Len(ReadBytes(rx)) + 1, Len(rx))
          /\ Decide(FromUtf8Lossy(ReadBytes(rx)))
          /\ resp' = IF pc' = "change_baudrate" /\ op.name = "auto_baud"
                     THEN <<>>
                     ELSE FromUtf8Lossy(ReadBytes(rx))
          /\ wire' = IF pc' = "change_baudrate" /\ op.name = "auto_baud"
                     THEN <<>>
                     ELSE wire
       \/ /\ Failed("read", <<>>)
          /\ rx' = rx
          /\ UNCHANGED <<resp, wire>>
          /\ SendFailed
    /\ UNCHANGED <<inCtor, ctor, op, mode, uartBaud, moduleBaud, elapsed, since, entry,
                   synced, opHonest, preBaud>>

(***************************************************************************)
(* self.hc_12.driver.change_baudrate(..)? in auto_baud, set_baud and       *)
(* set_transmission_mode                                                   *)
(***************************************************************************)
ChangeBaudrate ==
    /\ pc = "change_baudrate"
    /\ \/ /\ Succeeded("change_baudrate", pending, FALSE)
          /\ uartBaud' = pending
          /\ IF op.name = "auto_baud"
             THEN /\ pc' = "clear_rx"
                  /\ pending' = 0
                  /\ UNCHANGED <<result, ret, idx>>
             ELSE Return("Ok", "none")
       \/ /\ Failed("change_baudrate", pending)
          /\ uartBaud' = uartBaud
          /\ Return("Transport", "none")
    /\ UNCHANGED <<inCtor, ctor, op, mode, moduleBaud, rx, wire, resp, elapsed, since,
                   entry,
                   synced, opHonest, preBaud>>

(***************************************************************************)
(* Drop for Command                                                        *)
(***************************************************************************)
\* faulty variant: the mode line is restored only on the success path
ModeAfterDropOnSuccess(res) == IF res = "Ok" THEN "high" ELSE "low"

\* the level self.hc_12.set.set_high() leaves the mode line at, for a
\* session whose last operation ended with res
ModeAfterDrop(res) == "high"

\* faulty variant: the error of set_high is dropped and the program goes on
AfterFailedReleaseIgnored == "idle"

\* .expect("Could not exit command mode") on an Err of set_high
AfterFailedRelease == "panicked"

Drop ==
    /\ pc = "drop" \/ (pc = "active" /\ ~inCtor)
    /\ \/ /\ mode' = ModeAfterDrop(result)
          /\ elapsed' = 0
          /\ pc' = IF result = "panic" THEN "panicked"
                   ELSE IF inCtor /\ result # "Ok" THEN "failed"
                   ELSE "idle"
       \/ /\ pc' = AfterFailedRelease
          /\ UNCHANGED <<mode, elapsed>>
    /\ since' = NoSince
    /\ inCtor' = FALSE
    /\ ctor' = IF inCtor
               THEN [ctor EXCEPT !.ran = op.name,
                                 !.state = IF pc' = "idle" THEN "Ok"
                                           ELSE IF pc' = "failed" THEN "Err"
                                           ELSE "panicked"]
               ELSE ctor
    /\ op' = NoOp
    /\ idx' = 0
    /\ pending' = 0
    /\ entry' = NoEntry
    /\ log' = <<>>
    /\ opHonest' = TRUE
    /\ preBaud' = 0
    /\ synced' = FALSE
    /\ wire' = <<>>
    /\ resp' = <<>>
    /\ faults' = 0
    /\ ret' = "none"
    /\ rx' \in StaleChoices
    /\ UNCHANGED <<uartBaud, moduleBaud, result>>

Next ==
    \/ HcNew
    \/ CommandNew
    \/ CallTest
    \/ CallSetDefault
    \/ CallSetBaud
    \/ CallSetTransmissionMode
    \/ CallAutoBaud
    \/ ClearRx
    \/ Write
    \/ Read
    \/ ChangeBaudrate
    \/ Drop

Spec == Init /\ [][Next]_vars

(***************************************************************************)
(* Properties.                                                             *)
(***************************************************************************)
TypeOK ==
    /\ pc \in {"start", "open", "idle", "active", "clear_rx", "write", "read",
               "change_baudrate", "drop", "failed", "panicked"}
    /\ mode \in {"unset", "high", "low"}
    /\ uartBaud \in Nat
    /\ moduleBaud \in BaudValues
    /\ elapsed \in 0..Cap
    /\ faults \in 0..MaxFaults
    /\ idx \in 0..Len(Candidates)
    /\ Len(rx) <= 2 * BufferLen

\* no adapter call of the operation has failed
NoFault == \A i \in 1..Len(log) : log[i].ok

\* the operation called name has ended with a result
Returned(name) == op.name = name /\ result # "none"

\* the successful and failed writes of the operation, in order
Writes == SelectSeq(log, LAMBDA e : e.call = "write")

\* the local rates at which the operation wrote a command, in order
Probed == [i \in 1..Len(Writes) |-> Writes[i].baud]

\* the module never answered a write of the operation with exactly OK\r\n
NeverOk == \A i \in 1..Len(log) : ~log[i].okReply

\* the quiet window the module needs: 200 ms
RequiredQuiet == 200 * SubMs

\* the eight rates in ascending order, and the numeral of each
EightRates == <<1200, 2400, 4800, 9600, 19200, 38400, 57600, 115200>>

NumeralOf(b) ==
    CASE b = "Baud1200" -> <<"1", "2", "0", "0">>
      [] b = "Baud2400" -> <<"2", "4", "0", "0">>
      [] b = "Baud4800" -> <<"4", "8", "0", "0">>
      [] b = "Baud9600" -> <<"9", "6", "0", "0">>
      [] b = "Baud19200" -> <<"1", "9", "2", "0", "0">>
      [] b = "Baud38400" -> <<"3", "8", "4", "0", "0">>
      [] b = "Baud57600" -> <<"5", "7", "6", "0", "0">>
      [] b = "Baud115200" -> <<"1", "1", "5", "2", "0", "0">>

\* C1: a session that ended in any way but a panic, and whose close (the
\* set_high of Drop) went through, leaves the mode line high and
\* last_command_exit at the time of the close; with no session the mode
\* line of a constructed device is never low.
C1_CloseRestoresModeLine ==
    /\ [](pc = "idle" => mode = "high")
    /\ [][(pc \in {"active", "drop"} /\ result # "panic"
             /\ pc' \in {"idle", "failed"})
            => (mode' = "high" /\ elapsed' = 0)]_vars

\* C1 witness: a session that ended with a transport error has been closed
C1_Witness ==
    pc = "idle" /\ result = "Transport" /\ mode = "high" /\ elapsed = 0

\* C2: Command::new drives the mode line low only 200 ms or more after
\* last_command_exit, and when it is called earlier it has blocked for at
\* least the shortfall; the line is low only while a session exists.
C2_QuietWindow ==
    /\ entry # NoEntry =>
          /\ mode = "low"
          /\ entry.lowAt >= RequiredQuiet
          /\ entry.atCall < RequiredQuiet =>
                entry.blocked >= RequiredQuiet - entry.atCall
    /\ (mode = "low" /\ pc # "panicked") => Live

\* C2 witness: a session entered by a call made inside the quiet window
C2_Witness ==
    /\ pc = "active" /\ ~inCtor /\ mode = "low"
    /\ entry.atCall > 0 /\ entry.atCall < RequiredQuiet
    /\ entry.blocked > 0

\* C3: against a module that answers AT with OK\r\n exactly when the local
\* rate is the module's rate r, auto_baud returns r, leaves the local rate
\* at r, and has probed the candidates up to r and none above.
C3_AutoBaudFindsRate ==
    (Returned("auto_baud") /\ NoFault /\ opHonest) =>
        /\ result = "Ok"
        /\ BaudToU32(ret) = moduleBaud
        /\ uartBaud = moduleBaud
        /\ \E k \in 1..Len(EightRates) :
              /\ EightRates[k] = moduleBaud
              /\ Probed = SubSeq(EightRates, 1, k)

\* C3 witness: the module is at the last candidate and auto_baud found it
C3_Witness ==
    /\ Returned("auto_baud") /\ NoFault /\ opHonest
    /\ ret = "Baud115200" /\ uartBaud = 115200 /\ Len(Probed) = 8

\* C4: when no AT of auto_baud is answered with exactly OK\r\n, auto_baud
\* fails with AutoBaudRate after probing the eight candidates once each in
\* ascending order.
C4_AutoBaudExhausts ==
    (Returned("auto_baud") /\ NoFault /\ NeverOk) =>
        /\ result = "AutoBaudRate"
        /\ Probed = EightRates
        /\ \A i \in 1..Len(Writes) : Writes[i].data = <<"A", "T">>

\* C4 witness: auto_baud gave up against a module that never said OK
C4_Witness ==
    /\ Returned("auto_baud") /\ NoFault /\ NeverOk
    /\ result = "AutoBaudRate" /\ Len(Writes) = 8

\* C5: set_baud(r) writes AT+B<r>; it succeeds exactly when the decoded
\* response is OK+B<r>\r\n, and then the local rate is r; on any other
\* response it fails with BaudRate and the local rate is as before the call.
C5_SetBaud ==
    (Returned("set_baud") /\ NoFault) =>
        LET expected ==
                <<"O", "K", "+", "B">> \o NumeralOf(op.arg) \o <<"\r", "\n">>
        IN  /\ Len(Writes) = 1
            /\ Writes[1].data = <<"A", "T", "+", "B">> \o NumeralOf(op.arg)
            /\ (result = "Ok") <=> (resp = expected)
            /\ result = "Ok" => uartBaud = BaudToU32(op.arg)
            /\ result # "Ok" => (result = "BaudRate" /\ uartBaud = preBaud)

\* C5 witness: the module answered with another rate's numeral
C5_Witness ==
    /\ Returned("set_baud") /\ NoFault
    /\ op.arg = "Baud9600"
    /\ resp = <<"O", "K", "+", "B", "1", "1", "5", "2", "0", "0", "\r", "\n">>
    /\ result = "BaudRate" /\ uartBaud = preBaud

\* the successful and failed reads of the operation, in order
Reads == SelectSeq(log, LAMBDA e : e.call = "read")

\* the marker OK+FU<d> of a transmission mode
MarkerOf(m) ==
    <<"O", "K", "+", "F", "U">> \o
        (CASE m = "Fu1" -> <<"1">>
           [] m = "Fu2" -> <<"2">>
           [] m = "Fu3" -> <<"3">>
           [] m = "Fu4" -> <<"4">>)

\* the protocol error that belongs to each operation
OwnError(name) ==
    CASE name = "test" -> "Test"
      [] name = "set_baud" -> "BaudRate"
      [] name = "set_transmission_mode" -> "TransmissionMode"
      [] name = "auto_baud" -> "AutoBaudRate"
      [] name = "set_default" -> "Default"

\* C6: set_transmission_mode(FU<d>) succeeds exactly when the decoded
\* response contains OK+FU<d>, and fails with TransmissionMode when it does
\* not (no adapter call failing).
C6_ModeSucceedsIffMarker ==
    (Returned("set_transmission_mode") /\ NoFault) =>
        /\ (result = "Ok") <=> Contains(resp, MarkerOf(op.arg))
        /\ ~Contains(resp, MarkerOf(op.arg)) => result = "TransmissionMode"

\* C7: set_transmission_mode(FU3) answered with OK+FU3,B<r>\r\n ends with
\* the local rate at r after exactly one write and one read; a reply
\* OK+FU<d>\r\n with no second field leaves the local rate as it was.
C7_ModeReplyRate ==
    (Returned("set_transmission_mode") /\ NoFault) =>
        /\ \A b \in BaudRate :
              (op.arg = "Fu3"
                 /\ wire = MarkerOf("Fu3") \o <<",", "B">> \o NumeralOf(b)
                              \o <<"\r", "\n">>)
                => /\ result = "Ok"
                   /\ uartBaud = BaudToU32(b)
                   /\ Len(Writes) = 1 /\ Len(Reads) = 1
        /\ wire = MarkerOf(op.arg) \o <<"\r", "\n">>
              => (result = "Ok" /\ uartBaud = preBaud /\ Len(Writes) = 1)

\* C7 witness: the reply announced 115200, which does not fit the buffer
\* whole, and the local rate moved there
C7_Witness ==
    /\ Returned("set_transmission_mode") /\ NoFault /\ op.arg = "Fu3"
    /\ wire = MarkerOf("Fu3") \o <<",", "B">> \o NumeralOf("Baud115200")
                \o <<"\r", "\n">>
    /\ Len(resp) = 14
    /\ uartBaud = 115200 /\ preBaud # 115200

\* C8: when an operation that started with the local rate equal to the
\* module's rate, met no adapter failure and was answered as the wire
\* protocol prescribes has returned, the local rate equals the module's.
C8_LocalRateIsModuleRate ==
    (op # NoOp /\ result # "none" /\ synced /\ opHonest /\ NoFault) =>
        uartBaud = moduleBaud

\* C9: after an adapter call of an operation has failed the operation makes
\* no further write or read, and what it returns is the transport error.
C9_TransportFailureReturnsAtOnce ==
    \A i \in 1..Len(log) :
        ~log[i].ok =>
            /\ \A j \in (i + 1)..Len(log) : log[j].call \notin {"write", "read"}
            /\ result # "none" => result = "Transport"

\* C10: an operation ends with success, with the transport error or with
\* its own protocol error, and with nothing else.
C10_OutcomeTaxonomy ==
    (op # NoOp /\ result # "none") =>
        result \in {"Ok", "Transport", OwnError(op.name)}

\* C11: test writes AT once; it succeeds exactly when the decoded response
\* is OK\r\n, fails with Test on any other response (empty, short, with
\* bytes before or after), and the local rate is as before the call.
C11_TestExact ==
    /\ (Returned("test") /\ NoFault) =>
          /\ Len(Writes) = 1 /\ Writes[1].data = <<"A", "T">>
          /\ (result = "Ok") <=> (resp = <<"O", "K", "\r", "\n">>)
          /\ result # "Ok" => result = "Test"
    /\ op.name = "test" => uartBaud = preBaud

\* C11 witness: OK\r\n followed by one more byte was refused
C11_Witness ==
    /\ Returned("test") /\ NoFault
    /\ resp = <<"O", "K", "\r", "\n", "O">>
    /\ result = "Test" /\ uartBaud = preBaud

\* the reply OK+DEFAULT\r\n
DefaultOk ==
    <<"O", "K", "+", "D", "E", "F", "A", "U", "L", "T", "\r", "\n">>

\* C12: set_default writes AT+DEFAULT once and succeeds exactly when the
\* decoded response is OK+DEFAULT\r\n; succeeding or failing, it leaves the
\* local rate as it was before the call.
C12_SetDefaultExact ==
    /\ (Returned("set_default") /\ NoFault) =>
          /\ Len(Writes) = 1
          /\ Writes[1].data = <<"A", "T", "+", "D", "E", "F", "A", "U", "L", "T">>
          /\ (result = "Ok") <=> (resp = DefaultOk)
          /\ result # "Ok" => result = "Default"
    /\ op.name = "set_default" => uartBaud = preBaud

\* C12 witness: the reset succeeded at a local rate that is not the default
C12_Witness ==
    /\ Returned("set_default") /\ NoFault
    /\ resp = DefaultOk /\ result = "Ok"
    /\ preBaud = 115200 /\ uartBaud = 115200

\* C13: Hc12::new with a rate r returns a device at r without a session or
\* a write; with no rate it opens one session, runs auto_baud in it and
\* fails when auto_baud fails; when it returns after set_high succeeded the
\* mode line is high.
C13_Constructor ==
    /\ (ctor.state = "Ok" /\ ctor.arg \in BaudRate) =>
          /\ pc = "idle" /\ ~Live
          /\ ctor.sessions = 0 /\ ctor.ran = "none"
          /\ log = <<>> /\ wire = <<>>
          /\ uartBaud = BaudToU32(ctor.arg)
    /\ (ctor.state = "Ok" /\ ctor.arg = "None") =>
          (ctor.sessions = 1 /\ ctor.ran = "auto_baud" /\ result = "Ok")
    /\ (ctor.state = "Err" /\ ctor.arg = "None") =>
          /\ result # "Ok"
          /\ ctor.sessions <= 1
          /\ ctor.sessions = 1 => ctor.ran = "auto_baud"
    /\ (ctor.ran = "auto_baud" /\ result # "Ok") =>
          ctor.state \in {"Err", "panicked"}
    /\ (inCtor /\ op # NoOp) => op.name = "auto_baud"
    /\ (ctor.state \in {"Ok", "Err"} /\ mode # "unset") => mode = "high"

\* C13 witness: detection failed inside the constructor, which returned the
\* error with the mode line high
C13_Witness ==
    /\ ctor.arg = "None" /\ ctor.state = "Err" /\ ctor.ran = "auto_baud"
    /\ result = "AutoBaudRate" /\ pc = "failed" /\ mode = "high"

\* the settle delay the module needs after set_low and after a command
RequiredSettle == 200 * SubMs

\* the text a read of the reply alone gives: its first 14 bytes, decoded
ReplyAlone == FromUtf8Lossy(SubSeq(wire, 1, Min(Len(wire), 14)))

\* C15: a command is written only 200 ms or more after set_low and right
\* after a successful clear_rx made after that delay; a read is made only
\* right after a successful write and 200 ms or more after it; the decoded
\* response is made of the bytes of the reply and of no byte buffered earlier.
C15_SettleAndClear ==
    /\ \A i \in 1..Len(log) :
          /\ log[i].call = "write" =>
                /\ log[i].since.low >= RequiredSettle
                /\ i > 1 /\ log[i - 1].call = "clear_rx" /\ log[i - 1].ok
                /\ log[i - 1].since.low >= RequiredSettle
          /\ log[i].call = "read" =>
                /\ i > 1 /\ log[i - 1].call = "write" /\ log[i - 1].ok
                /\ log[i].since.write >= RequiredSettle
    /\ (Len(log) > 0 /\ log[Len(log)].call = "read" /\ log[Len(log)].ok) =>
          resp = ReplyAlone

\* C15 witness: the module sent nothing and test read nothing
C15_Witness ==
    /\ Returned("test") /\ NoFault /\ Len(log) = 3
    /\ log[3].call = "read" /\ log[3].since.write >= RequiredSettle
    /\ wire = <<>> /\ resp = <<>> /\ result = "Test"

\* the most adapter calls one call of an operation may make
StepBound(name) ==
    CASE name \in {"test", "set_default"} -> 3
      [] name \in {"set_baud", "set_transmission_mode"} -> 4
      [] name = "auto_baud" -> 8 * 4
      [] OTHER -> 0

\* C16: one call of test, set_baud, set_transmission_mode or set_default
\* makes at most one write and one read, and exactly one of each when no
\* adapter call fails; one call of auto_baud writes AT at most eight times.
\* Every step of an operation is one more adapter call and the number of
\* calls of one operation is bounded, so an operation has no endless run.
C16_NoRetryBoundedSteps ==
    /\ [](/\ op.name \in {"test", "set_baud", "set_transmission_mode",
                          "set_default"} =>
                /\ Len(Writes) <= 1 /\ Len(Reads) <= 1
                /\ (result # "none" /\ NoFault) =>
                      (Len(Writes) = 1 /\ Len(Reads) = 1)
          /\ op.name = "auto_baud" =>
                /\ Len(Writes) <= 8
                /\ \A i \in 1..Len(Writes) : Writes[i].data = <<"A", "T">>
          /\ Len(log) <= StepBound(op.name))
    /\ [][InOperation => Len(log') = Len(log) + 1]_vars

\* C16 witness: set_transmission_mode ended in a parse error after one
\* write and one read
C16_Witness ==
    /\ Returned("set_transmission_mode") /\ result = "ParseInt"
    /\ Len(Writes) = 1 /\ Len(Reads) = 1 /\ Len(log) = 3

\* C17: when the session ends and the mode line has not been set high, the
\* program is in the panicked state; from the panicked state no step is
\* taken, so no session is opened and nothing is written afterwards.
C17_FailedReleaseIsFatal ==
    /\ [][(Live /\ ~Live' /\ mode' # "high") => pc' = "panicked"]_vars
    /\ [][pc # "panicked"]_vars

\* C17 witness: the operation had succeeded, the release failed
C17_Witness ==
    pc = "panicked" /\ mode = "low" /\ result = "Ok" /\ ~Live

\* C18: the local rate of a constructed device is one of the eight rates
\* of BaudRate.
C18_LocalRateInEnum ==
    uartBaud # 0 =>
        uartBaud \in {1200, 2400, 4800, 9600, 19200, 38400, 57600, 115200}

\* C19: when auto_baud has returned AutoBaudRate the local rate is 115200,
\* the last candidate and the rate of the last AT written, whatever the
\* rate was when the first change_baudrate of the call was made.
C19_AutoBaudLeavesLastRate ==
    (Returned("auto_baud") /\ result = "AutoBaudRate") =>
        /\ uartBaud = 115200
        /\ log[1].call = "change_baudrate" /\ log[1].ok
        /\ NoFault => (Len(Writes) = 8 /\ Writes[8].baud = 115200)

\* C19 witness: detection failed in the constructor, where the rate before
\* the call is 9600, and the rate is 115200
C19_Witness ==
    /\ inCtor /\ Returned("auto_baud") /\ result = "AutoBaudRate"
    /\ log[1].call = "change_baudrate" /\ log[1].data = 1200
    /\ uartBaud = 115200

=============================================================================
